---------------------------- MODULE Spec2Model ----------------------------
(***************************************************************************)
(* A model of repolib/util.py: the helpers that compare, diff and merge    *)
(* repository sources, resolve the sources/keys directories, fetch         *)
(* signing keys and validate deb lines.                                    *)
(*                                                                         *)
(* A Python str is a sequence of one-character strings, so that split,     *)
(* strip, join, startswith and urlparse are computed character by          *)
(* character.  A source (a dict of str -> str) is a function from the set  *)
(* of its keys to strs.  Python's True, False and None are the strings     *)
(* "True", "False" and "None".                                             *)
(***************************************************************************)
EXTENDS Naturals, Sequences, FiniteSets, TLC

VARIABLES
    source1,        \* combine/compare/diff: the first source (mutated by combine_sources)
    source2,        \* the second source (mutated by combine_sources)
    excl_keys,      \* compare/diff: the keys to exclude
    snap,           \* the (source1, source2) pairs as they were before each combine_sources call
    res,            \* results recorded per call: a function from call name to returned value
    SOURCES_DIR,    \* module global
    KEYS_DIR,       \* module global
    PRETTY_PRINT,   \* module global
    fs,             \* the paths that exist on the filesystem
    last,           \* the last call of the process: [fn, arg, ret, exc]
    line            \* validate_debline / strip_hashes: the input line

vars == <<source1, source2, excl_keys, snap, res, SOURCES_DIR, KEYS_DIR,
          PRETTY_PRINT, fs, last, line>>

reconcilerVars == <<source1, source2, excl_keys, snap>>
processVars == <<SOURCES_DIR, KEYS_DIR, PRETTY_PRINT, fs, last>>

-----------------------------------------------------------------------------
(* Bounds *)

\* longest field value of the sources handed to combine_sources
MaxLen == 3
\* longest field value of the sources handed to compare/diff
MaxCmpLen == 1

-----------------------------------------------------------------------------
(* Python str primitives *)

\* str.isspace() characters that can occur in the modelled values
Whitespace == {" ", "\t", "\n"}

\* all strs over alphabet of length at most n
Strs(alphabet, n) == UNION {[1..k -> alphabet] : k \in 0..n}

\* s.startswith(prefix)
startswith(s, prefix) ==
    /\ Len(s) >= Len(prefix)
    /\ SubSeq(s, 1, Len(prefix)) = prefix

\* s.endswith(suffix)
endswith(s, suffix) ==
    /\ Len(s) >= Len(suffix)
    /\ SubSeq(s, Len(s) - Len(suffix) + 1, Len(s)) = suffix

\* s.lstrip(chars)
RECURSIVE lstrip(_, _)
lstrip(s, chars) ==
    IF s # <<>> /\ Head(s) \in chars THEN lstrip(Tail(s), chars) ELSE s

\* s.rstrip(chars)
RECURSIVE rstrip(_, _)
rstrip(s, chars) ==
    IF s # <<>> /\ s[Len(s)] \in chars
    THEN rstrip(SubSeq(s, 1, Len(s) - 1), chars)
    ELSE s

\* s.strip(chars); s.strip() is strip(s, Whitespace)
strip(s, chars) == rstrip(lstrip(s, chars), chars)

\* s.split(): the maximal runs of non-whitespace characters, in order
RECURSIVE split_from(_, _)
split_from(s, word) ==
    IF s = <<>>
    THEN IF word = <<>> THEN <<>> ELSE <<word>>
    ELSE IF Head(s) \in Whitespace
         THEN IF word = <<>>
              THEN split_from(Tail(s), <<>>)
              ELSE <<word>> \o split_from(Tail(s), <<>>)
         ELSE split_from(Tail(s), Append(word, Head(s)))

split(s) == split_from(s, <<>>)

\* sep.join(words)
RECURSIVE join(_, _)
join(sep, words) ==
    IF words = <<>> THEN <<>>
    ELSE IF Len(words) = 1 THEN words[1]
    ELSE words[1] \o sep \o join(sep, Tail(words))

\* c in s, for a character c
contains(s, c) == \E i \in 1..Len(s) : s[i] = c

\* s.replace(c, ''), for a character c
RECURSIVE remove_char(_, _)
remove_char(s, c) ==
    IF s = <<>> THEN <<>>
    ELSE IF Head(s) = c THEN remove_char(Tail(s), c)
    ELSE <<Head(s)>> \o remove_char(Tail(s), c)

-----------------------------------------------------------------------------
(* Reconciler: compare_sources, find_differences_sources, combine_sources *)

\* compare_sources without its loop over source2
compare_sources_first_loop(s1, s2, excl) ==
    IF \E key \in DOMAIN s1 :
          /\ key \notin excl
          /\ (key \in DOMAIN s2 => s1[key] # s2[key])
    THEN "False"
    ELSE "True"

\* compare_sources: "False" at the first mismatching or one-sided key of either loop
compare_sources(s1, s2, excl) ==
    IF \E key \in DOMAIN s1 :
          /\ key \notin excl
          /\ (key \in DOMAIN s2 => s1[key] # s2[key])
    THEN "False"
    ELSE IF \E key \in DOMAIN s2 :
               /\ key \notin excl
               /\ (key \in DOMAIN s1 => s1[key] # s2[key])
         THEN "False"
         ELSE "True"

\* the keys for which a loop of find_differences_sources reaches its last assignment:
\* not excluded, and not present in the other source with an equal value
recorded_keys(this, other, excl) ==
    {key \in DOMAIN this :
        /\ key \notin excl
        /\ ~(key \in DOMAIN other /\ this[key] = other[key])}

\* differing_keys after the first loop: for a key present in source2 with another
\* value the assignment of line 275 is followed by the one of line 276, which
\* replaces the pair by (source1[key], '')
differences_loop1(s1, s2, excl) ==
    [key \in recorded_keys(s1, s2, excl) |-> <<s1[key], <<>>>>]

\* differing_keys after the second loop: every recorded key of source2 is
\* (re)assigned ('', source2[key]); the other keys keep the first loop's pair
differences_loop2(d, s1, s2, excl) ==
    [key \in DOMAIN d \cup recorded_keys(s2, s1, excl) |->
        IF key \in recorded_keys(s2, s1, excl)
        THEN <<<<>>, s2[key]>>
        ELSE d[key]]

\* find_differences_sources without its loop over source2
find_differences_first_loop(s1, s2, excl) ==
    differences_loop1(s1, s2, excl)

find_differences_sources(s1, s2, excl) ==
    differences_loop2(differences_loop1(s1, s2, excl), s1, s2, excl)

\* the keys combine_sources leaves alone while concatenating
SkippedKeys == {"X-Repolib-Name", "X-Repolib-ID", "Enabled", "Types"}

\* one concatenating loop of combine_sources: the loop over source1 and the loop
\* over source2 both append f' {source2[key]}' to source1[key] for each
\* non-skipped key the two sources share
append_shared(s1, s2) ==
    [key \in DOMAIN s1 |->
        IF key \notin SkippedKeys /\ key \in DOMAIN s2
        THEN s1[key] \o <<" ">> \o s2[key]
        ELSE s1[key]]

\* newvals: the first occurrence of each val, in order
RECURSIVE unique_from(_, _)
unique_from(vals, newvals) ==
    IF vals = <<>> THEN newvals
    ELSE IF \E i \in 1..Len(newvals) : newvals[i] = Head(vals)
         THEN unique_from(Tail(vals), newvals)
         ELSE unique_from(Tail(vals), Append(newvals, Head(vals)))

\* a deduplication that drops a val only when it repeats the one before it
RECURSIVE unique_adjacent(_)
unique_adjacent(vals) ==
    IF Len(vals) < 2 THEN vals
    ELSE IF vals[1] = vals[2] THEN unique_adjacent(Tail(vals))
    ELSE <<vals[1]>> \o unique_adjacent(Tail(vals))

unique(vals) == unique_from(vals, <<>>)

\* a deduplicating loop that rejoins the vals without dropping any
deduplicate_keeps_all(source) ==
    [key \in DOMAIN source |->
        join(<<" ">>, split(strip(source[key], Whitespace)))]

\* one deduplicating loop of combine_sources, over every key of the source
deduplicate(source) ==
    [key \in DOMAIN source |->
        join(<<" ">>, unique(split(strip(source[key], Whitespace))))]

\* combine_sources: the pair (source1, source2) it leaves behind
combine_sources(s1, s2) ==
    <<deduplicate(append_shared(append_shared(s1, s2), s2)), deduplicate(s2)>>

-----------------------------------------------------------------------------
(* The sources handed to the reconciler *)

\* characters of the field values
ValueChars == {"a", "b", " "}
CmpChars == {"a", "b"}

\* the fields that vary in the sources handed to combine_sources
MergeKeys == {"X-Repolib-Name", "X-Repolib-ID", "X-Repolib-Ident", "Suites"}
\* the fields of the sources handed to compare_sources / find_differences_sources
CmpKeys == {"X-Repolib-Name", "Suites"}

\* the fields every source handed to combine_sources has
BaseSource1 ==
    ("Enabled" :> <<"y", "e", "s">>) @@ ("Types" :> <<"d", "e", "b">>)
BaseSource2 ==
    ("Enabled" :> <<"n", "o">>) @@ ("Types" :> <<"d", "e", "b", "-", "s", "r", "c">>)

\* source[key] = val
setitem(source, key, val) ==
    [k \in DOMAIN source \cup {key} |-> IF k = key THEN val ELSE source[k]]

MergeSources(base) ==
    {base} \cup {setitem(base, key, val) :
                    key \in MergeKeys, val \in Strs(ValueChars, MaxLen)}

CmpSources ==
    UNION {[keys -> Strs(CmpChars, MaxCmpLen)] : keys \in SUBSET CmpKeys}

\* no result recorded
NoResults == [c \in {} |-> "None"]

\* no call made by the process yet
NoCall == [fn |-> "", arg |-> "", ret |-> "None", exc |-> "None"]

ProcessIdle ==
    /\ SOURCES_DIR = "/etc/apt/sources.list.d"
    /\ KEYS_DIR = "/usr/share/keyrings/"
    /\ PRETTY_PRINT = "\n    "
    /\ fs = {}
    /\ last = NoCall

-----------------------------------------------------------------------------
(* combine_sources called repeatedly on a pair of sources *)

\* calls of combine_sources on the same pair
MaxCalls == 2

InitMerge ==
    /\ source1 \in MergeSources(BaseSource1)
    /\ source2 \in MergeSources(BaseSource2)
    /\ excl_keys = {}
    /\ snap = <<>>
    /\ res = NoResults
    /\ line = <<>>
    /\ ProcessIdle

Combine ==
    /\ Len(snap) < MaxCalls
    /\ source1' = combine_sources(source1, source2)[1]
    /\ source2' = combine_sources(source1, source2)[2]
    /\ snap' = Append(snap, <<source1, source2>>)
    /\ UNCHANGED <<excl_keys, res, line, processVars>>

NextMerge == Combine

SpecMerge == InitMerge /\ [][NextMerge]_vars

-----------------------------------------------------------------------------
(* compare_sources and find_differences_sources on a pair of sources *)

InitCompare ==
    /\ source1 \in CmpSources
    /\ source2 \in CmpSources
    /\ excl_keys \in SUBSET CmpKeys
    /\ snap = <<>>
    /\ res = NoResults
    /\ line = <<>>
    /\ ProcessIdle

Record(call, value) ==
    /\ call \notin DOMAIN res
    /\ res' = (call :> value) @@ res

\* compare_sources(source1, source2, excl_keys)
Compare ==
    /\ Record("compare", compare_sources(source1, source2, excl_keys))
    /\ UNCHANGED <<reconcilerVars, line, processVars>>

\* compare_sources(source2, source1, excl_keys)
CompareSwapped ==
    /\ Record("compare_swapped", compare_sources(source2, source1, excl_keys))
    /\ UNCHANGED <<reconcilerVars, line, processVars>>

\* find_differences_sources(source1, source2, excl_keys)
Diff ==
    /\ Record("diff", find_differences_sources(source1, source2, excl_keys))
    /\ UNCHANGED <<reconcilerVars, line, processVars>>

NextCompare == Compare \/ CompareSwapped \/ Diff

SpecCompare == InitCompare /\ [][NextCompare]_vars

-----------------------------------------------------------------------------
(* The process: module globals, directories, source files, key fetch *)

DEFAULT_SOURCES_DIR == "/etc/apt/sources.list.d"
DEFAULT_KEYS_DIR == "/usr/share/keyrings/"
TEST_SOURCES_DIR == "/tmp/repolib_testing"
TEST_KEYS_DIR == "/tmp/replib_testing/keys"
KEYSERVER_QUERY_URL == <<"http://keyserver.ubuntu.com/pks/lookup?op=get&search=0x">>

\* the directories above a directory
Ancestors(dir) ==
    CASE dir = DEFAULT_SOURCES_DIR -> {<<"/etc">>, <<"/etc/apt">>}
      [] dir = DEFAULT_KEYS_DIR -> {<<"/usr">>, <<"/usr/share">>}
      [] dir = TEST_SOURCES_DIR -> {<<"/tmp">>}
      [] dir = TEST_KEYS_DIR -> {<<"/tmp">>, <<"/tmp/replib_testing">>}

\* Path(dir): a path is the tuple of the directory and, for a file, its name parts
Path(dir) == <<dir>>

\* Path(dir).mkdir(parents=True, exist_ok=True)
mkdir(files, dir) == files \cup Ancestors(dir) \cup {Path(dir)}

\* Path(dir) / f'{name}.{ext}'
SourceFile(dir, name, ext) == Path(dir) \o <<name, ".", ext>>

\* the names, fingerprints and query urls the callers pass
Names == {"myrepo", "other"}
Fingerprints == {<<"A1">>, <<"B2">>, <<>>}
QueryUrls == {KEYSERVER_QUERY_URL, <<"http://localhost/">>}

Call(fn, arg, ret, exc) == [fn |-> fn, arg |-> arg, ret |-> ret, exc |-> exc]

\* "True" / "False" for a Python truth value
Bool(b) == IF b THEN "True" ELSE "False"

get_keys_dir(testing) ==
    /\ KEYS_DIR' = IF testing THEN TEST_KEYS_DIR ELSE KEYS_DIR
    /\ fs' = mkdir(fs, KEYS_DIR')
    /\ last' = Call("get_keys_dir", Bool(testing), KEYS_DIR', "None")
    /\ UNCHANGED <<SOURCES_DIR, PRETTY_PRINT, reconcilerVars, res, line>>

\* a get_sources_dir whose testing=False puts the default back
get_sources_dir_resets(testing) ==
    /\ SOURCES_DIR' = IF testing THEN TEST_SOURCES_DIR ELSE DEFAULT_SOURCES_DIR
    /\ fs' = mkdir(fs, SOURCES_DIR')
    /\ last' = Call("get_sources_dir", Bool(testing), SOURCES_DIR', "None")
    /\ UNCHANGED <<KEYS_DIR, PRETTY_PRINT, reconcilerVars, res, line>>

get_sources_dir(testing) ==
    /\ SOURCES_DIR' = IF testing THEN TEST_SOURCES_DIR ELSE SOURCES_DIR
    /\ fs' = mkdir(fs, SOURCES_DIR')
    /\ last' = Call("get_sources_dir", Bool(testing), SOURCES_DIR', "None")
    /\ UNCHANGED <<KEYS_DIR, PRETTY_PRINT, reconcilerVars, res, line>>

\* get_source_path(name): both probes go through get_sources_dir(), which
\* creates the configured directory
get_source_path(name) ==
    /\ fs' = mkdir(fs, SOURCES_DIR)
    /\ last' = Call("get_source_path", name,
                    IF SourceFile(SOURCES_DIR, name, "sources") \in fs
                    THEN SourceFile(SOURCES_DIR, name, "sources")
                    ELSE IF SourceFile(SOURCES_DIR, name, "list") \in fs
                         THEN SourceFile(SOURCES_DIR, name, "list")
                         ELSE "None",
                    "None")
    /\ UNCHANGED <<SOURCES_DIR, KEYS_DIR, PRETTY_PRINT, reconcilerVars, res, line>>

prettyprint_enable(enabled) ==
    /\ PRETTY_PRINT' = IF enabled THEN "\n    " ELSE ""
    /\ last' = Call("prettyprint_enable", Bool(enabled), "None", "None")
    /\ UNCHANGED <<SOURCES_DIR, KEYS_DIR, fs, reconcilerVars, res, line>>

\* req after the try statement: the response of request.urlopen(full_url), or
\* None where error.URLError was caught
urlopen_or_none(full_url, net) ==
    IF net = "URLError"
    THEN [none |-> TRUE, body |-> <<>>]
    ELSE [none |-> FALSE, body |-> <<"key of">> \o full_url]

\* req.read(): what is returned, and what is raised (None has no read)
read(req) ==
    IF req.none
    THEN [ret |-> "None", exc |-> "AttributeError"]
    ELSE [ret |-> req.body, exc |-> "None"]

\* fetch_key(fingerprint, query_url), the network answering net
fetch_key(fingerprint, query_url, net) ==
    /\ last' = [fn |-> "fetch_key",
                arg |-> query_url \o fingerprint,
                net |-> net,
                ret |-> read(urlopen_or_none(query_url \o fingerprint, net)).ret,
                exc |-> read(urlopen_or_none(query_url \o fingerprint, net)).exc]
    /\ UNCHANGED <<SOURCES_DIR, KEYS_DIR, PRETTY_PRINT, fs, reconcilerVars, res, line>>

\* the file model saves a source file into a sources directory that exists
SaveSourceFile(dir, name, ext) ==
    /\ Path(dir) \in fs
    /\ fs' = fs \cup {SourceFile(dir, name, ext)}
    /\ UNCHANGED <<SOURCES_DIR, KEYS_DIR, PRETTY_PRINT, last, reconcilerVars, res, line>>

Init ==
    /\ ProcessIdle
    /\ source1 = <<>>
    /\ source2 = <<>>
    /\ excl_keys = {}
    /\ snap = <<>>
    /\ res = NoResults
    /\ line = <<>>

Next ==
    \/ \E testing \in BOOLEAN : get_keys_dir(testing)
    \/ \E testing \in BOOLEAN : get_sources_dir(testing)
    \/ \E name \in Names : get_source_path(name)
    \/ \E enabled \in BOOLEAN : prettyprint_enable(enabled)
    \/ \E fingerprint \in Fingerprints, query_url \in QueryUrls,
          net \in {"ok", "URLError"} :
            fetch_key(fingerprint, query_url, net)
    \/ \E dir \in {DEFAULT_SOURCES_DIR, TEST_SOURCES_DIR}, name \in Names,
          ext \in {"sources", "list"} :
            SaveSourceFile(dir, name, ext)

Spec == Init /\ [][Next]_vars

-----------------------------------------------------------------------------
(* Validator: url_validator, validate_debline, strip_hashes *)

LowerCase == <<"a", "b", "c", "d", "e", "f", "g", "h", "i", "j", "k", "l", "m", "n", "o", "p", "q", "r", "s", "t", "u", "v", "w", "x", "y", "z">>
UpperCase == <<"A", "B", "C", "D", "E", "F", "G", "H", "I", "J", "K", "L", "M", "N", "O", "P", "Q", "R", "S", "T", "U", "V", "W", "X", "Y", "Z">>
Digits == {"0", "1", "2", "3", "4", "5", "6", "7", "8", "9"}
Letters == {LowerCase[i] : i \in 1..Len(LowerCase)} \cup {UpperCase[i] : i \in 1..Len(UpperCase)}

\* urllib.parse.scheme_chars
scheme_chars == Letters \cup Digits \cup {"+", "-", "."}

\* s.lower()
lower(s) ==
    [i \in 1..Len(s) |->
        IF \E j \in 1..Len(UpperCase) : UpperCase[j] = s[i]
        THEN LowerCase[CHOOSE j \in 1..Len(UpperCase) : UpperCase[j] = s[i]]
        ELSE s[i]]

\* s.find(c) + 1 for a character out of chars: the position of the first one, 0 if none
find(s, chars) ==
    IF \E i \in 1..Len(s) : s[i] \in chars
    THEN CHOOSE i \in 1..Len(s) :
            /\ s[i] \in chars
            /\ \A j \in 1..(i - 1) : s[j] \notin chars
    ELSE 0

\* s up to, not including, the first character out of chars
before(s, chars) ==
    IF find(s, chars) = 0 THEN s ELSE SubSeq(s, 1, find(s, chars) - 1)

\* s from the first character out of chars on
from(s, chars) ==
    IF find(s, chars) = 0 THEN <<>> ELSE SubSeq(s, find(s, chars), Len(s))

\* urllib.parse.urlparse(url): scheme, netloc and path, or the ValueError raised
\* for a netloc with an unmatched bracket
urlparse(url0) ==
    LET url == remove_char(remove_char(remove_char(
                   lstrip(url0, Whitespace), "\t"), "\r"), "\n")
        colon == find(url, {":"})
        has_scheme ==
            /\ colon > 1
            /\ url[1] \in Letters
            /\ \A i \in 1..(colon - 1) : url[i] \in scheme_chars
        scheme == IF has_scheme THEN lower(SubSeq(url, 1, colon - 1)) ELSE <<>>
        rest == IF has_scheme THEN SubSeq(url, colon + 1, Len(url)) ELSE url
        has_netloc == startswith(rest, <<"/", "/">>)
        after_slashes == SubSeq(rest, 3, Len(rest))
        netloc == IF has_netloc THEN before(after_slashes, {"/", "?", "#"}) ELSE <<>>
        tail == IF has_netloc THEN from(after_slashes, {"/", "?", "#"}) ELSE rest
        path == before(before(tail, {"#"}), {"?"})
    IN  [scheme |-> scheme, netloc |-> netloc, path |-> path,
         raises |-> contains(netloc, "[") # contains(netloc, "]")]

\* url_validator(url)
url_validator(url) ==
    LET result == urlparse(url)
    IN  IF result.raises THEN "False"
        ELSE IF result.scheme = <<>> THEN "False"
        ELSE IF result.scheme = <<"x", "-", "r", "e", "p", "o", "l", "i", "b", "-", "n", "a", "m", "e">> THEN "False"
        ELSE IF result.netloc # <<>> THEN "True"
        ELSE IF result.path # <<>> THEN "True"
        ELSE "False"

\* validate_debline(valid): "None" where the function ends without a return
validate_debline(valid0) ==
    LET valid == IF startswith(valid0, <<"#">>)
                 THEN strip(remove_char(valid0, "#"), Whitespace)
                 ELSE valid0
        words == split(valid)
    IN  IF startswith(valid, <<"d", "e", "b">>)
        THEN IF \E i \in 1..Len(words) : url_validator(words[i]) = "True"
             THEN "True"
             ELSE "None"
        ELSE IF startswith(valid, <<"p", "p", "a", ":">>)
        THEN IF contains(valid, "/") THEN "True" ELSE "None"
        ELSE IF endswith(valid, <<".", "f", "l", "a", "t", "p", "a", "k", "r", "e", "p", "o">>) THEN "False"
        ELSE IF Len(words) = 1 THEN url_validator(valid)
        ELSE "False"

\* strip_hashes(line)
RECURSIVE strip_hashes(_)
strip_hashes(line0) ==
    LET stripped == strip(strip(line0, {"#"}), Whitespace)
    IN  IF ~startswith(stripped, <<"#">>) THEN stripped ELSE strip_hashes(stripped)

-----------------------------------------------------------------------------
(* validate_debline and strip_hashes on a line *)

\* pieces a line is put together from
MaxPieces == 3

Pieces == {
    <<"#">>,
    <<" ">>,
    <<"d", "e", "b", " ">>,
    <<"p", "p", "a", ":">>,
    <<"u", "/", "n">>,
    <<"h", "t", "t", "p", ":", "/", "/", "h">>,
    <<"f", "i", "l", "e", ":", "/", "/", "/", "p">>,
    <<"x">>,
    <<".", "f", "l", "a", "t", "p", "a", "k", "r", "e", "p", "o">>,
    <<"X", "-", "R", "e", "p", "o", "l", "i", "b", "-", "N", "a", "m", "e", ":", "n">>
}

\* the pieces, concatenated
RECURSIVE flatten(_)
flatten(pieces) ==
    IF pieces = <<>> THEN <<>> ELSE Head(pieces) \o flatten(Tail(pieces))

Lines == {flatten(pieces) : pieces \in Strs(Pieces, MaxPieces)}

InitLines ==
    /\ line \in Lines
    /\ res = NoResults
    /\ source1 = <<>>
    /\ source2 = <<>>
    /\ excl_keys = {}
    /\ snap = <<>>
    /\ ProcessIdle

ValidateDebline ==
    /\ Record("validate_debline", validate_debline(line))
    /\ UNCHANGED <<reconcilerVars, line, processVars>>

StripHashes ==
    /\ Record("strip_hashes", strip_hashes(line))
    /\ UNCHANGED <<reconcilerVars, line, processVars>>

NextLines == ValidateDebline \/ StripHashes

SpecLines == InitLines /\ [][NextLines]_vars

-----------------------------------------------------------------------------
(* Properties of combine_sources (SpecMerge) *)

\* the sources as the n-th call of combine_sources found and left them
Before(n) == snap[n]
After(n) == IF n < Len(snap) THEN snap[n + 1] ELSE <<source1, source2>>

\* the positions of s where a whitespace-separated token starts
TokenStarts(s) ==
    {i \in 1..Len(s) : s[i] \notin Whitespace /\ (i = 1 \/ s[i - 1] \in Whitespace)}

\* the last position of the token that starts at position i
TokenEnd(s, i) ==
    CHOOSE j \in i..Len(s) :
        /\ \A k \in i..j : s[k] \notin Whitespace
        /\ (j = Len(s) \/ s[j + 1] \in Whitespace)

\* the n-th smallest member of a set of numbers
Nth(set, n) == CHOOSE i \in set : Cardinality({j \in set : j < i}) = n - 1

\* the whitespace-separated tokens of s, in order
TokensOf(s) ==
    [n \in 1..Cardinality(TokenStarts(s)) |->
        SubSeq(s, Nth(TokenStarts(s), n), TokenEnd(s, Nth(TokenStarts(s), n)))]

\* the members of a sequence without those that occurred earlier in it
FirstOccurrences(seq) ==
    LET first == {i \in 1..Len(seq) : \A j \in 1..(i - 1) : seq[j] # seq[i]}
    IN  [n \in 1..Cardinality(first) |-> seq[Nth(first, n)]]

RECURSIVE TotalLen(_)
TotalLen(tokens) ==
    IF tokens = <<>> THEN 0 ELSE Len(Head(tokens)) + TotalLen(Tail(tokens))

\* s is exactly the tokens with one space between neighbours
IsSpaceJoined(s, tokens) ==
    /\ TokensOf(s) = tokens
    /\ \A i \in 1..Len(s) : s[i] \in Whitespace => s[i] = " "
    /\ Len(s) = TotalLen(tokens) + (IF tokens = <<>> THEN 0 ELSE Len(tokens) - 1)

\* the identity/type fields: the name, the ident under the spelling of
\* combine_sources and under the spelling of valid_keys, Enabled and Types
IdentityFields ==
    {"X-Repolib-Name", "X-Repolib-ID", "X-Repolib-Ident", "Enabled", "Types"}

\* C1: after combine_sources(a, b), every field present in both that is not an
\* identity/type field holds, in a, the tokens of a's original value followed
\* by the tokens of b's original value, first occurrences only, joined by
\* single spaces
C1_MergedTokens ==
    \A n \in 1..Len(snap) :
        \A key \in (DOMAIN Before(n)[1] \cap DOMAIN Before(n)[2]) \ IdentityFields :
            IsSpaceJoined(After(n)[1][key],
                          FirstOccurrences(TokensOf(Before(n)[1][key])
                                           \o TokensOf(Before(n)[2][key])))

\* C1 witness: Suites 'b' merged with Suites 'b a' gives 'b a': the shared
\* token is kept once, in a's place, and the new one follows it
C1_Witness ==
    /\ Len(snap) >= 1
    /\ "Suites" \in DOMAIN snap[1][1] \cap DOMAIN snap[1][2]
    /\ snap[1][1]["Suites"] = <<"b">>
    /\ snap[1][2]["Suites"] = <<"b", " ", "a">>
    /\ After(1)[1]["Suites"] = <<"b", " ", "a">>

\* the identity/type fields as the specification of merge lists them
ListedIdentityFields == {"X-Repolib-Name", "X-Repolib-Ident", "Enabled", "Types"}

\* C2: after combine_sources(a, b) the identity/type fields X-Repolib-Name,
\* X-Repolib-Ident, Enabled and Types of a hold exactly the values they had
\* before the call
C2_IdentityUnchanged ==
    \A n \in 1..Len(snap) :
        \A key \in DOMAIN Before(n)[1] \cap ListedIdentityFields :
            After(n)[1][key] = Before(n)[1][key]

\* C6: a second combine_sources(a, b) on the sources the first call left
\* leaves every field of a and of b as it was after the first call
C6_Idempotent ==
    \A n \in 2..Len(snap) : After(n) = Before(n)

\* C6 witness: two calls made, the first of which changed both a and b
C6_Witness ==
    /\ Len(snap) = 2
    /\ snap[2][1] # snap[1][1]
    /\ snap[2][2] # snap[1][2]
    /\ "Suites" \in DOMAIN snap[1][1] \cap DOMAIN snap[1][2]
    /\ <<source1, source2>> = snap[2]

-----------------------------------------------------------------------------
(* Properties of compare_sources and find_differences_sources (SpecCompare) *)

\* C3: every non-excluded field present in both sources with different values
\* is mapped by find_differences_sources to the pair (a's value, b's value)
C3_BothValues ==
    "diff" \in DOMAIN res =>
        \A key \in (DOMAIN source1 \cap DOMAIN source2) \ excl_keys :
            source1[key] # source2[key] =>
                /\ key \in DOMAIN res["diff"]
                /\ res["diff"][key] = <<source1[key], source2[key]>>

\* C4: compare_sources(a, b, E) is True iff find_differences_sources(a, b, E)
\* is the empty mapping
C4_CompareIffNoDifferences ==
    ("compare" \in DOMAIN res /\ "diff" \in DOMAIN res) =>
        (res["compare"] = "True" <=> DOMAIN res["diff"] = {})

\* C4 witness: sources that differ only in an excluded field compare True and
\* have no differences
C4_Witness ==
    /\ "compare" \in DOMAIN res
    /\ "diff" \in DOMAIN res
    /\ source1 # source2
    /\ DOMAIN source1 = CmpKeys
    /\ res["compare"] = "True"
    /\ DOMAIN res["diff"] = {}

\* C5: compare_sources(a, b, E) = compare_sources(b, a, E)
C5_CompareSymmetric ==
    ("compare" \in DOMAIN res /\ "compare_swapped" \in DOMAIN res) =>
        res["compare"] = res["compare_swapped"]

\* C5 witness: a non-excluded field present only in the second source, an
\* excluded one only in the first, compared both ways
C5_Witness ==
    /\ "compare" \in DOMAIN res
    /\ "compare_swapped" \in DOMAIN res
    /\ DOMAIN source1 = {"X-Repolib-Name"}
    /\ DOMAIN source2 = {"Suites"}
    /\ excl_keys = {"X-Repolib-Name"}
    /\ res["compare_swapped"] = "False"

-----------------------------------------------------------------------------
(* Properties of the process (Spec) *)

\* C7: when the request of fetch_key fails with a URL error, fetch_key returns
\* no data and no exception leaves it
C7_UrlErrorSuppressed ==
    (last.fn = "fetch_key" /\ last.net = "URLError") =>
        /\ last.exc = "None"
        /\ last.ret = "None"

\* C8: once a directory getter has switched its path to the test directory,
\* the path stays there and every later call of that getter returns it
C8_TestModeOneWay ==
    [][/\ (last'.fn = "get_sources_dir" /\ last'.arg = "True")
            => SOURCES_DIR' = TEST_SOURCES_DIR
       /\ (last'.fn = "get_keys_dir" /\ last'.arg = "True")
            => KEYS_DIR' = TEST_KEYS_DIR
       /\ SOURCES_DIR = TEST_SOURCES_DIR
            => /\ SOURCES_DIR' = TEST_SOURCES_DIR
               /\ last'.fn = "get_sources_dir" => last'.ret = TEST_SOURCES_DIR
       /\ KEYS_DIR = TEST_KEYS_DIR
            => /\ KEYS_DIR' = TEST_KEYS_DIR
               /\ last'.fn = "get_keys_dir" => last'.ret = TEST_KEYS_DIR]_vars

\* C8 witness: get_sources_dir called without testing after the switch
\* returned the test directory
C8_Witness ==
    /\ last.fn = "get_sources_dir"
    /\ last.arg = "False"
    /\ last.ret = TEST_SOURCES_DIR
    /\ KEYS_DIR = TEST_KEYS_DIR

-----------------------------------------------------------------------------
(* Properties of the validator (SpecLines) *)

\* C9: validate_debline returns True or False for every line; for a line
\* starting with 'deb', True iff one of its tokens passes url_validator; for a
\* line starting with 'ppa:', True iff it contains '/'
C9_ReturnsBool ==
    "validate_debline" \in DOMAIN res =>
        /\ res["validate_debline"] \in {"True", "False"}
        /\ startswith(line, <<"d", "e", "b">>) =>
              (res["validate_debline"] = "True" <=>
                  \E i \in 1..Len(TokensOf(line)) :
                      url_validator(TokensOf(line)[i]) = "True")
        /\ startswith(line, <<"p", "p", "a", ":">>) =>
              (res["validate_debline"] = "True" <=> contains(line, "/"))

\* C10: the line strip_hashes returns neither starts nor ends with '#' or a
\* whitespace character
C10_NoOuterHashes ==
    "strip_hashes" \in DOMAIN res =>
        LET out == res["strip_hashes"]
        IN  out # <<>> =>
                /\ out[1] \notin Whitespace \cup {"#"}
                /\ out[Len(out)] \notin Whitespace \cup {"#"}

=============================================================================
